---- MODULE Spec2Model ----
(***************************************************************************)
(* A model of the hashtable of hashtable.h: the bucket array of collision  *)
(* chains, the resize protocol driven by the load-factor tolerance, and    *)
(* the external iterator.                                                   *)
(*                                                                         *)
(* Keys and values are the pointers the caller passes in: they are drawn   *)
(* from small sets of non-NULL addresses.  A chain (a singly linked list   *)
(* of struct hashtable_item) is the sequence of its items, head first; the *)
(* next pointer of an item is its successor in the sequence.               *)
(*                                                                         *)
(* And a model of the memory pool of mempool.h: the list of raw blocks,    *)
(* the bump pointer into the newest block and the free list.  A pointer    *)
(* into a block is the address of the block and a byte offset; the free    *)
(* list, which the code threads through the freed elements, is the         *)
(* sequence of their pointers, head first.                                 *)
(***************************************************************************)
EXTENDS Integers, Sequences, FiniteSets, TLC

\* ---------------------------------------------------------------- bounds
NumKeys == 3
NumValues == 2
MaxCount == 12
MaxSize == 64
NumDistinctKeys == 12
MaxAllocs == 4
NumBlockAddrs == 2

\* ------------------------------------------------------ program constants
HASHTABLE_DEFAULT_SIZE == 16
DEFAULT_SIZE_TOLERANCE == 70
NULL == 0
UNDEFINED == -1
LINK_SIZE == 8

Keys == 1..NumKeys
Values == 1..NumValues

\* HASHTABLE_SIZE_TOLERANCE as the including C file may define it; UNDEFINED
\* stands for "not defined".
ConfiguredTolerances == {UNDEFINED, 0, 30, 50, 70, 100}

\* The hash functions a caller passes to hashtable_create: key -> uint32.
\* Multiplier 1 spreads the keys over a table of 4 buckets or more and makes
\* them collide in a smaller one; multiplier 8 makes them all collide in a
\* table of up to 8 buckets, some of them in one of 16, and spreads them once
\* the table has grown to 32.
HashMultipliers == {1, 8}

VARIABLES
    hashfunc,   \* hashtable->hashfunc, as the function it computes
    tolerance,  \* HASHTABLE_SIZE_TOLERANCE after preprocessing
    size,       \* hashtable->size
    count,      \* hashtable->count
    items,      \* hashtable->items: bucket i of the code is items[i + 1]
    it,         \* the iterator, if one is open
    yielded,    \* the non-NULL values hashtable_iterator_next returned so far
    recent,     \* history: key -> value of its latest insert, NULL once removed
    last,       \* the latest call and what it returned
    pool,       \* the mempool_t
    pcfg,       \* the arguments MEMPOOL_INIT was given
    plive,      \* history: the pointers mempool_alloc returned, not freed since
    phist,      \* history: the latest pool calls, oldest first
    pfreed      \* history: mempool_free was called on this pool

tvars == <<hashfunc, tolerance, size, count, items, it, yielded, recent, last>>
pvars == <<pool, pcfg, plive, phist, pfreed>>
vars == <<tvars, pvars>>

\* size, count and the hashes are uint32_t.  Every number the bounded model
\* computes stays far below 2^32, so no operation on them wraps, except
\* size - 1 at size 0, which is treated where it occurs.

RECURSIVE BitAnd(_, _)
BitAnd(a, b) ==
    IF a = 0 \/ b = 0 THEN 0
    ELSE (a % 2) * (b % 2) + 2 * BitAnd(a \div 2, b \div 2)

\* hash & mask for the hashes of Keys and the masks of the sizes below the
\* cap, computed once.
TableHashes == {m * k : m \in HashMultipliers, k \in Keys}
TableMasks == 0..(2 * MaxSize)
AndTable == [h \in TableHashes |-> [m \in TableMasks |-> BitAnd(h, m)]]

\* index = hashfunc(key) & (size - 1); at size 0 the mask wraps to all ones
BucketIndex(hf, sz, key) ==
    IF sz = 0 THEN hf[key]
    ELSE IF hf[key] \in TableHashes /\ sz - 1 \in TableMasks
         THEN AndTable[hf[key]][sz - 1]
         ELSE BitAnd(hf[key], sz - 1)

\* compfunc returns 0 on a match
compfunc(k1, k2) == IF k1 = k2 THEN 0 ELSE 1

hashtable_item(key, data) == [key |-> key, data |-> data]

\* The position of the first item of chain whose key matches, 0 if none.
MatchPos(chain, key) ==
    LET hits == {p \in 1..Len(chain) : compfunc(chain[p].key, key) = 0}
    IN  IF hits = {} THEN 0 ELSE CHOOSE p \in hits : \A q \in hits : p <= q

RemoveAt(chain, p) == SubSeq(chain, 1, p - 1) \o SubSeq(chain, p + 1, Len(chain))

\* hashtable_insert_internal without "item->next = cur->next": the item that
\* replaces a duplicate ends its chain.
hashtable_insert_internal_NoNext(hf, its, sz, item) ==
    LET index == BucketIndex(hf, sz, item.key)
        chain == its[index + 1]
        p     == MatchPos(chain, item.key)
    IN  IF chain = <<>>
        THEN [items |-> [its EXCEPT ![index + 1] = <<item>>], ret |-> NULL]
        ELSE IF p # 0
        THEN [items |-> [its EXCEPT ![index + 1] = Append(SubSeq(chain, 1, p - 1), item)],
              ret   |-> chain[p].data]
        ELSE [items |-> [its EXCEPT ![index + 1] = Append(chain, item)], ret |-> NULL]

hashtable_insert_internal(hf, its, sz, item) ==
    LET index == BucketIndex(hf, sz, item.key)
        chain == its[index + 1]
        p     == MatchPos(chain, item.key)
    IN  IF chain = <<>>
        THEN [items |-> [its EXCEPT ![index + 1] = <<item>>], ret |-> NULL]
        ELSE IF p # 0
        THEN \* duplicate: the new item takes the place of cur and keeps cur->next
             [items |-> [its EXCEPT ![index + 1] = [chain EXCEPT ![p] = item]],
              ret   |-> chain[p].data]
        ELSE [items |-> [its EXCEPT ![index + 1] = Append(chain, item)], ret |-> NULL]

\* The items of buckets from..sz-1, bucket by bucket, each chain head first.
RECURSIVE ItemsInOrder(_, _, _)
ItemsInOrder(its, sz, from) ==
    IF from >= sz THEN <<>>
    ELSE its[from + 1] \o ItemsInOrder(its, sz, from + 1)

RECURSIVE Reinsert(_, _, _, _)
Reinsert(hf, moved, its, sz) ==
    IF moved = <<>> THEN its
    ELSE Reinsert(hf, Tail(moved), hashtable_insert_internal(hf, its, sz, Head(moved)).items, sz)

\* The new size with "size - 1" in place of "size >> 1".
ResizedSize_Minus(sz, direction) ==
    IF direction = 1 THEN sz * 2
    ELSE IF direction = -1 THEN sz - 1
    ELSE sz

ResizedSize(sz, direction) ==
    IF direction = 1 THEN sz * 2
    ELSE IF direction = -1 THEN sz \div 2
    ELSE sz

\* hashtable_resize that copies the chains bucket by bucket in place of
\* reinserting their items.
hashtable_resize_CopyBuckets(hf, its, sz, direction) ==
    IF direction \notin {1, -1} THEN [size |-> sz, items |-> its]
    ELSE LET newsize == ResizedSize(sz, direction)
         IN  [size  |-> newsize,
              items |-> [i \in 1..newsize |-> IF i <= sz THEN its[i] ELSE <<>>]]

hashtable_resize(hf, its, sz, direction) ==
    IF direction \notin {1, -1} THEN [size |-> sz, items |-> its]
    ELSE LET newsize == ResizedSize(sz, direction)
         IN  [size  |-> newsize,
              items |-> Reinsert(hf, ItemsInOrder(its, sz, 0),
                                 [i \in 1..newsize |-> <<>>], newsize)]

\* ++count * 100 >= size * HASHTABLE_SIZE_TOLERANCE, and above it the check
\* as count++ would make it.
GrowCheck_PostIncrement(tol, cnt, sz) == (cnt - 1) * 100 >= sz * tol
GrowCheck(tol, cnt, sz) == cnt * 100 >= sz * tol

\* --count * 100 < size * (100 - HASHTABLE_SIZE_TOLERANCE)
ShrinkCheckRemove(tol, cnt, sz) == cnt * 100 < sz * (100 - tol)

\* The check of hashtable_pop,
\* --count * 100 <= size * (100 - HASHTABLE_SIZE_TOLERANCE), and below it the
\* same check made on the count before the decrement.
ShrinkCheckPop_BeforeDecrement(tol, cnt, sz) == (cnt + 1) * 100 <= sz * (100 - tol)
ShrinkCheckPop(tol, cnt, sz) == cnt * 100 <= sz * (100 - tol)

hashtable_insert(hf, tol, its, sz, cnt, key, data) ==
    LET c1    == cnt + 1
        grown == IF GrowCheck(tol, c1, sz)
                 THEN hashtable_resize(hf, its, sz, 1)
                 ELSE [size |-> sz, items |-> its]
        r     == hashtable_insert_internal(hf, grown.items, grown.size,
                                           hashtable_item(key, data))
    IN  [items |-> r.items, size |-> grown.size, count |-> c1, ret |-> r.ret]

hashtable_find(hf, its, sz, key) ==
    LET chain == its[BucketIndex(hf, sz, key) + 1]
        p     == MatchPos(chain, key)
    IN  IF p = 0 THEN NULL ELSE chain[p].data

\* What is left after an item was unlinked: the count goes down and the
\* table may shrink.
AfterUnlink(hf, tol, its, sz, cnt, shrink) ==
    LET c1 == cnt - 1
    IN  IF shrink
        THEN LET r == hashtable_resize(hf, its, sz, -1)
             IN  [items |-> r.items, size |-> r.size, count |-> c1]
        ELSE [items |-> its, size |-> sz, count |-> c1]

\* hashtable_remove with the shrink check after the loop, so that it also runs
\* when no item matched.
hashtable_remove_CheckAlways(hf, tol, its, sz, cnt, key) ==
    LET index == BucketIndex(hf, sz, key)
        chain == its[index + 1]
        p     == MatchPos(chain, key)
    IN  IF p = 0
        THEN LET r == IF ShrinkCheckRemove(tol, cnt, sz)
                      THEN hashtable_resize(hf, its, sz, -1)
                      ELSE [size |-> sz, items |-> its]
             IN  [items |-> r.items, size |-> r.size, count |-> cnt, ret |-> NULL]
        ELSE LET unlinked == [its EXCEPT ![index + 1] = RemoveAt(chain, p)]
                 c1       == cnt - 1
                 a        == AfterUnlink(hf, tol, unlinked, sz, cnt,
                                         ShrinkCheckRemove(tol, c1, sz))
             IN  [items |-> a.items, size |-> a.size, count |-> a.count,
                  ret |-> chain[p].data]

hashtable_remove(hf, tol, its, sz, cnt, key) ==
    LET index == BucketIndex(hf, sz, key)
        chain == its[index + 1]
        p     == MatchPos(chain, key)
    IN  IF p = 0
        THEN [items |-> its, size |-> sz, count |-> cnt, ret |-> NULL]
        ELSE LET unlinked == [its EXCEPT ![index + 1] = RemoveAt(chain, p)]
                 c1       == cnt - 1
                 a        == AfterUnlink(hf, tol, unlinked, sz, cnt,
                                         ShrinkCheckRemove(tol, c1, sz))
             IN  [items |-> a.items, size |-> a.size, count |-> a.count,
                  ret |-> chain[p].data]

\* The first non-empty bucket at or after from, sz if there is none.
RECURSIVE NextBucket(_, _, _)
NextBucket(its, sz, from) ==
    IF from >= sz THEN sz
    ELSE IF its[from + 1] # <<>> THEN from
    ELSE NextBucket(its, sz, from + 1)

\* hashtable_pop that empties the bucket instead of linking cur->next.
hashtable_pop_DropChain(hf, tol, its, sz, cnt) ==
    LET i == NextBucket(its, sz, 0)
    IN  IF i >= sz
        THEN [items |-> its, size |-> sz, count |-> cnt, ret |-> NULL, key |-> NULL]
        ELSE LET cur      == its[i + 1][1]
                 unlinked == [its EXCEPT ![i + 1] = <<>>]
                 c1       == cnt - 1
                 a        == AfterUnlink(hf, tol, unlinked, sz, cnt,
                                         ShrinkCheckPop(tol, c1, sz))
             IN  [items |-> a.items, size |-> a.size, count |-> a.count,
                  ret |-> cur.data, key |-> cur.key]

hashtable_pop(hf, tol, its, sz, cnt) ==
    LET i == NextBucket(its, sz, 0)
    IN  IF i >= sz
        THEN [items |-> its, size |-> sz, count |-> cnt, ret |-> NULL, key |-> NULL]
        ELSE LET cur      == its[i + 1][1]
                 unlinked == [its EXCEPT ![i + 1] = Tail(@)]
                 c1       == cnt - 1
                 a        == AfterUnlink(hf, tol, unlinked, sz, cnt,
                                         ShrinkCheckPop(tol, c1, sz))
             IN  [items |-> a.items, size |-> a.size, count |-> a.count,
                  ret |-> cur.data, key |-> cur.key]

hashtable_get_count == count

\* An iterator: it->index and it->item.  The item pointer is the position of
\* the item in the chain of bucket index, NULL (0) at the end.
NoIterator == [open |-> FALSE, index |-> 0, item |-> NULL]

hashtable_iterator_begin(its, sz) ==
    LET i == NextBucket(its, sz, 0)
    IN  [open |-> TRUE, index |-> i, item |-> IF i < sz THEN 1 ELSE NULL]

\* hashtable_iterator_next that starts over at the first bucket when called at
\* the end.
hashtable_iterator_next_Restart(its, sz, itr) ==
    IF itr.item = NULL
    THEN [it |-> hashtable_iterator_begin(its, sz), ret |-> NULL]
    ELSE LET chain     == its[itr.index + 1]
             prev_data == chain[itr.item].data
         IN  IF itr.item < Len(chain)
             THEN [it |-> [itr EXCEPT !.item = @ + 1], ret |-> prev_data]
             ELSE LET i == NextBucket(its, sz, itr.index + 1)
                  IN  [it  |-> [itr EXCEPT !.index = i,
                                           !.item = IF i < sz THEN 1 ELSE NULL],
                       ret |-> prev_data]

\* hashtable_iterator_next without the "move to next in chain" branch.
hashtable_iterator_next_NoChain(its, sz, itr) ==
    IF itr.item = NULL THEN [it |-> itr, ret |-> NULL]
    ELSE LET chain     == its[itr.index + 1]
             prev_data == chain[itr.item].data
             i         == NextBucket(its, sz, itr.index + 1)
         IN  [it  |-> [itr EXCEPT !.index = i,
                                  !.item = IF i < sz THEN 1 ELSE NULL],
              ret |-> prev_data]

hashtable_iterator_next(its, sz, itr) ==
    IF itr.item = NULL THEN [it |-> itr, ret |-> NULL]
    ELSE LET chain     == its[itr.index + 1]
             prev_data == chain[itr.item].data
         IN  IF itr.item < Len(chain)
             THEN [it |-> [itr EXCEPT !.item = @ + 1], ret |-> prev_data]
             ELSE LET i == NextBucket(its, sz, itr.index + 1)
                  IN  [it  |-> [itr EXCEPT !.index = i,
                                           !.item = IF i < sz THEN 1 ELSE NULL],
                       ret |-> prev_data]

\* The preprocessor lines that settle HASHTABLE_SIZE_TOLERANCE.  HASHTABLE is
\* no macro, so it is 0 inside #if and the clamp to 50 is never taken.
HASHTABLE == 0
PreprocessTolerance(configured) ==
    LET inIf == IF configured = UNDEFINED THEN 0 ELSE configured
    IN  IF HASHTABLE # 0 /\ inIf < 50 THEN 50
        ELSE IF configured = UNDEFINED THEN DEFAULT_SIZE_TOLERANCE
        ELSE configured

\* The direction of the resize a call made: 1 up, -1 down, 0 none.
Resized(before, after) ==
    IF after > before THEN 1 ELSE IF after < before THEN -1 ELSE 0

\* --------------------------------------------------------------- mempool
\* LINK_SIZE is sizeof(struct mempool_free), one pointer.  The element sizes
\* are one below it and it; the element counts make blocks of one element
\* and of several.
ElemSizes == {4, LINK_SIZE}
ElemCounts == {1, 2, 3}

\* A pointer into a block: the address malloc gave the block and the byte
\* offset.  A NULL block with offset 0 is the NULL pointer.
Pointer(block, offset) == [block |-> block, offset |-> offset]
NullPtr == Pointer(NULL, 0)

\* The addresses malloc can give the i-th block of the list: addresses of
\* no other block in use, among them the one an earlier i-th block had.
MallocResults(i) == {(i - 1) * NumBlockAddrs + g : g \in 1..NumBlockAddrs}

MEMPOOL_INIT(elem_size, elem_count) ==
    [element_size  |-> IF elem_size < LINK_SIZE THEN LINK_SIZE ELSE elem_size,
     block_size    |-> elem_size * elem_count,
     block_count   |-> 0,
     alloc_count   |-> 0,
     block_end     |-> 0,
     blocks        |-> <<>>,
     free_elements |-> <<>>]

\* mempool_alloc_internal that returns the head of the free list and leaves
\* it on the list.
mempool_alloc_internal_KeepsHead(pl, block) ==
    IF pl.free_elements # <<>>
    THEN [pool     |-> [pl EXCEPT !.alloc_count = @ + 1],
          ret      |-> Head(pl.free_elements),
          newblock |-> FALSE]
    ELSE LET grow == pl.block_end = pl.block_size \/ pl.block_count = 0
             p1   == IF grow
                     THEN [pl EXCEPT !.block_count = @ + 1,
                                     !.blocks = Append(@, block),
                                     !.block_end = 0]
                     ELSE pl
         IN  IF grow /\ block = NULL
             THEN [pool |-> p1, ret |-> NullPtr, newblock |-> TRUE]
             ELSE [pool     |-> [p1 EXCEPT !.block_end = @ + p1.element_size,
                                           !.alloc_count = @ + 1],
                   ret      |-> Pointer(p1.blocks[p1.block_count], p1.block_end),
                   newblock |-> grow]

\* mempool_alloc_internal; block is what malloc returns if the call needs a
\* new block, NULL for a failure.  (realloc of the block list succeeds.)
\* newblock tells whether the call asked for a block.
mempool_alloc_internal(pl, block) ==
    IF pl.free_elements # <<>>
    THEN [pool     |-> [pl EXCEPT !.free_elements = Tail(@), !.alloc_count = @ + 1],
          ret      |-> Head(pl.free_elements),
          newblock |-> FALSE]
    ELSE LET grow == pl.block_end = pl.block_size \/ pl.block_count = 0
             p1   == IF grow
                     THEN [pl EXCEPT !.block_count = @ + 1,
                                     !.blocks = Append(@, block),
                                     !.block_end = 0]
                     ELSE pl
         IN  IF grow /\ block = NULL
             THEN [pool |-> p1, ret |-> NullPtr, newblock |-> TRUE]
             ELSE [pool     |-> [p1 EXCEPT !.block_end = @ + p1.element_size,
                                           !.alloc_count = @ + 1],
                   ret      |-> Pointer(p1.blocks[p1.block_count], p1.block_end),
                   newblock |-> grow]

\* mempool_free that leaves the free list as it is when it releases the
\* blocks.
mempool_free_KeepsFreeList(pl, element) ==
    LET p1 == [pl EXCEPT !.alloc_count = @ - 1,
                         !.free_elements = <<element>> \o @]
    IN  IF p1.alloc_count = 0
        THEN [p1 EXCEPT !.blocks = <<>>, !.block_count = 0, !.block_end = 0]
        ELSE p1

\* mempool_free that links the freed element at the tail of the free list.
mempool_free_AtTail(pl, element) ==
    LET p1 == [pl EXCEPT !.alloc_count = @ - 1,
                         !.free_elements = @ \o <<element>>]
    IN  IF p1.alloc_count = 0
        THEN [p1 EXCEPT !.blocks = <<>>, !.block_count = 0,
                        !.block_end = 0, !.free_elements = <<>>]
        ELSE p1

mempool_free(pl, element) ==
    LET p1 == [pl EXCEPT !.alloc_count = @ - 1,
                         !.free_elements = <<element>> \o @]
    IN  IF p1.alloc_count = 0
        THEN [p1 EXCEPT !.blocks = <<>>, !.block_count = 0,
                        !.block_end = 0, !.free_elements = <<>>]
        ELSE p1

\* The pool of a program that only uses the table.
PoolUnused ==
    /\ pool = MEMPOOL_INIT(LINK_SIZE, 1)
    /\ pcfg = [elem_size |-> LINK_SIZE, elem_count |-> 1]
    /\ plive = {}
    /\ phist = <<>>
    /\ pfreed = FALSE

\* -------------------------------------------------------------- the state
hashtable_create_internal(hf, tol) ==
    /\ hashfunc = hf
    /\ tolerance = tol
    /\ count = 0
    /\ size = HASHTABLE_DEFAULT_SIZE
    /\ items = [i \in 1..HASHTABLE_DEFAULT_SIZE |-> <<>>]
    /\ it = NoIterator
    /\ yielded = <<>>
    /\ recent = [k \in DOMAIN hf |-> NULL]
    /\ last = [op |-> "create", ret |-> NULL, resized |-> 0]

HashFuncs == {[k \in Keys |-> m * k] : m \in HashMultipliers}

\* The default build: HASHTABLE_SIZE_TOLERANCE is not defined by the includer.
Init ==
    /\ PoolUnused
    /\ \E hf \in HashFuncs :
              hashtable_create_internal(hf, PreprocessTolerance(UNDEFINED))

\* A build in which the includer defines HASHTABLE_SIZE_TOLERANCE.
InitConfigured ==
    /\ PoolUnused
    /\ \E hf \in HashFuncs, t \in ConfiguredTolerances :
              hashtable_create_internal(hf, PreprocessTolerance(t))

\* The table must not be changed while an iterator is open (the iterator's
\* contract); count and size are capped to keep the model finite.
Insert(key, data) ==
    /\ ~it.open
    /\ count < MaxCount
    /\ size <= MaxSize
    /\ LET r == hashtable_insert(hashfunc, tolerance, items, size, count, key, data)
       IN  /\ items' = r.items
           /\ size' = r.size
           /\ count' = r.count
           /\ last' = [op |-> "insert", ret |-> r.ret,
                        resized |-> Resized(size, r.size)]
    /\ recent' = [recent EXCEPT ![key] = data]
    /\ UNCHANGED <<hashfunc, tolerance, it, yielded>>
    /\ UNCHANGED pvars

Find(key) ==
    /\ last' = [op |-> "find",
                ret |-> hashtable_find(hashfunc, items, size, key),
                resized |-> 0]
    /\ UNCHANGED <<hashfunc, tolerance, size, count, items, it, yielded, recent>>
    /\ UNCHANGED pvars

Remove(key) ==
    /\ ~it.open
    /\ LET r == hashtable_remove(hashfunc, tolerance, items, size, count, key)
       IN  /\ items' = r.items
           /\ size' = r.size
           /\ count' = r.count
           /\ last' = [op |-> "remove", ret |-> r.ret,
                        resized |-> Resized(size, r.size)]
    /\ recent' = [recent EXCEPT ![key] = NULL]
    /\ UNCHANGED <<hashfunc, tolerance, it, yielded>>
    /\ UNCHANGED pvars

Pop ==
    /\ ~it.open
    /\ LET r == hashtable_pop(hashfunc, tolerance, items, size, count)
       IN  /\ items' = r.items
           /\ size' = r.size
           /\ count' = r.count
           /\ last' = [op |-> "pop", ret |-> r.ret,
                        resized |-> Resized(size, r.size)]
           /\ recent' = IF r.key = NULL THEN recent
                        ELSE [recent EXCEPT ![r.key] = NULL]
    /\ UNCHANGED <<hashfunc, tolerance, it, yielded>>
    /\ UNCHANGED pvars

IteratorBegin ==
    /\ ~it.open
    /\ it' = hashtable_iterator_begin(items, size)
    /\ yielded' = <<>>
    /\ last' = [op |-> "iterator_begin", ret |-> NULL, resized |-> 0]
    /\ UNCHANGED <<hashfunc, tolerance, size, count, items, recent>>
    /\ UNCHANGED pvars

IteratorNext ==
    /\ it.open
    /\ LET r == hashtable_iterator_next(items, size, it)
       IN  /\ it' = r.it
           /\ yielded' = IF r.ret = NULL THEN yielded ELSE Append(yielded, r.ret)
           /\ last' = [op |-> "iterator_next", ret |-> r.ret, resized |-> 0]
    /\ UNCHANGED <<hashfunc, tolerance, size, count, items, recent>>
    /\ UNCHANGED pvars

IteratorEnd ==
    /\ it.open
    /\ it' = NoIterator
    /\ yielded' = <<>>
    /\ last' = [op |-> "iterator_end", ret |-> NULL, resized |-> 0]
    /\ UNCHANGED <<hashfunc, tolerance, size, count, items, recent>>
    /\ UNCHANGED pvars

Next ==
    \/ \E key \in Keys, data \in Values : Insert(key, data)
    \/ \E key \in Keys : Find(key)
    \/ \E key \in Keys : Remove(key)
    \/ Pop
    \/ IteratorBegin
    \/ IteratorNext
    \/ IteratorEnd

Spec == Init /\ [][Next]_vars

SpecConfigured == InitConfigured /\ [][Next]_vars

\* ------------------------------------------- a run of inserts of new keys
\* Keys for a run that inserts each key at most once, as the test does with
\* its generated names, and hash functions that keep them in buckets of their
\* own.
DistinctKeys == 1..NumDistinctKeys
DistinctHashMultipliers == {1, 3}
DistinctHashFuncs == {[k \in DistinctKeys |-> m * k] : m \in DistinctHashMultipliers}

InitDistinct ==
    /\ PoolUnused
    /\ \E hf \in DistinctHashFuncs :
              hashtable_create_internal(hf, PreprocessTolerance(UNDEFINED))

InsertDistinct(key) ==
    /\ hashtable_find(hashfunc, items, size, key) = NULL
    /\ LET data == 1 + (key % NumValues)
           r    == hashtable_insert(hashfunc, tolerance, items, size, count, key, data)
       IN  /\ items' = r.items
           /\ size' = r.size
           /\ count' = r.count
           /\ last' = [op |-> "insert", ret |-> r.ret,
                        resized |-> Resized(size, r.size)]
           /\ recent' = [recent EXCEPT ![key] = data]
    /\ UNCHANGED <<hashfunc, tolerance, it, yielded>>
    /\ UNCHANGED pvars

NextDistinct ==
    \E key \in DistinctKeys : InsertDistinct(key)

SpecDistinct == InitDistinct /\ [][NextDistinct]_vars

\* ------------------------------------------------- calloc returning NULL
\* hashtable_resize when calloc returns NULL.  The new size is stored before
\* the call and the result is stored unchecked, so the table is left with the
\* new size and a NULL bucket array (the empty sequence); the old array is
\* freed.  Every item of the old array, and the item an insert places after
\* the resize, is then stored through the NULL array: fault tells whether
\* the call got that far.  No call is modelled on a table without an array.
NullArray == <<>>

hashtable_resize_nomem(its, sz, direction) ==
    [size  |-> ResizedSize(sz, direction),
     items |-> NullArray,
     fault |-> ItemsInOrder(its, sz, 0) # <<>>]

HasArray == items # NullArray

InsertNoMem(key, data) ==
    /\ HasArray /\ ~it.open
    /\ GrowCheck(tolerance, count + 1, size)
    /\ LET r == hashtable_resize_nomem(items, size, 1)
       IN  /\ items' = r.items
           /\ size' = r.size
           /\ count' = count + 1
           /\ last' = [op |-> "insert_nomem", ret |-> NULL, resized |-> 1]
    /\ UNCHANGED <<hashfunc, tolerance, it, yielded, recent>>
    /\ UNCHANGED pvars

RemoveNoMem(key) ==
    /\ HasArray /\ ~it.open
    /\ LET index == BucketIndex(hashfunc, size, key)
           chain == items[index + 1]
           p     == MatchPos(chain, key)
       IN  /\ p # 0
           /\ ShrinkCheckRemove(tolerance, count - 1, size)
           /\ LET unlinked == [items EXCEPT ![index + 1] = RemoveAt(chain, p)]
                  r        == hashtable_resize_nomem(unlinked, size, -1)
              IN  /\ items' = r.items
                  /\ size' = r.size
                  /\ count' = count - 1
                  /\ last' = [op |-> "remove_nomem",
                               ret |-> IF r.fault THEN NULL ELSE chain[p].data,
                               resized |-> -1]
    /\ recent' = [recent EXCEPT ![key] = NULL]
    /\ UNCHANGED <<hashfunc, tolerance, it, yielded>>
    /\ UNCHANGED pvars

PopNoMem ==
    /\ HasArray /\ ~it.open
    /\ LET i == NextBucket(items, size, 0)
       IN  /\ i < size
           /\ ShrinkCheckPop(tolerance, count - 1, size)
           /\ LET cur      == items[i + 1][1]
                  unlinked == [items EXCEPT ![i + 1] = Tail(@)]
                  r        == hashtable_resize_nomem(unlinked, size, -1)
              IN  /\ items' = r.items
                  /\ size' = r.size
                  /\ count' = count - 1
                  /\ last' = [op |-> "pop_nomem",
                               ret |-> IF r.fault THEN NULL ELSE cur.data,
                               resized |-> -1]
                  /\ recent' = [recent EXCEPT ![cur.key] = NULL]
    /\ UNCHANGED <<hashfunc, tolerance, it, yielded>>
    /\ UNCHANGED pvars

NextNoMem ==
    \/ HasArray /\ \E key \in Keys, data \in Values : Insert(key, data)
    \/ HasArray /\ \E key \in Keys : Remove(key)
    \/ HasArray /\ Pop
    \/ \E key \in Keys, data \in Values : InsertNoMem(key, data)
    \/ \E key \in Keys : RemoveNoMem(key)
    \/ PopNoMem

SpecNoMem == Init /\ [][NextNoMem]_vars

\* ------------------------------------------------------ the pool's calls
\* The table of a program that only uses the pool.
TableUnused ==
    hashtable_create_internal([k \in Keys |-> k], PreprocessTolerance(UNDEFINED))

InitPool ==
    /\ TableUnused
    /\ \E elem_size \in ElemSizes, elem_count \in ElemCounts :
          /\ pool = MEMPOOL_INIT(elem_size, elem_count)
          /\ pcfg = [elem_size |-> elem_size, elem_count |-> elem_count]
    /\ plive = {}
    /\ phist = <<>>
    /\ pfreed = FALSE

\* The history keeps the three latest calls.
Record(h, call) == Append(IF Len(h) = 3 THEN Tail(h) ELSE h, call)

AllocCall(r) ==
    [op |-> "alloc", ptr |-> r.ret, newblock |-> r.newblock,
     count |-> r.pool.alloc_count]

\* mempool_alloc with every allocation succeeding; alloc_count is capped to
\* keep the model finite.  The caller takes a NULL result as a failure and
\* holds no element for it.
Alloc ==
    /\ pool.alloc_count < MaxAllocs
    /\ \E block \in MallocResults(pool.block_count + 1) :
          LET r == mempool_alloc_internal(pool, block)
          IN  /\ pool' = r.pool
              /\ plive' = (plive \cup {r.ret}) \ {NullPtr}
              /\ phist' = Record(phist, AllocCall(r))
    /\ UNCHANGED <<pcfg, pfreed, tvars>>

\* mempool_alloc when the malloc of the new block returns NULL.
AllocNoMem ==
    /\ pool.alloc_count < MaxAllocs /\ pool.block_count < MaxAllocs
    /\ pool.free_elements = <<>>
    /\ pool.block_end = pool.block_size \/ pool.block_count = 0
    /\ LET r == mempool_alloc_internal(pool, NULL)
       IN  /\ pool' = r.pool
           /\ plive' = plive
           /\ phist' = Record(phist, AllocCall(r))
    /\ UNCHANGED <<pcfg, pfreed, tvars>>

\* mempool_free of an element the caller holds.  An element whose block is
\* NULL is not freed: the store of the link through it is undefined.
Free(element) ==
    /\ element \in plive
    /\ element.block # NULL
    /\ pool' = mempool_free(pool, element)
    /\ plive' = plive \ {element}
    /\ phist' = Record(phist, [op |-> "free", ptr |-> element, newblock |-> FALSE,
                               count |-> pool'.alloc_count])
    /\ pfreed' = TRUE
    /\ UNCHANGED <<pcfg, tvars>>

NextPool ==
    \/ Alloc
    \/ \E element \in plive : Free(element)

SpecPool == InitPool /\ [][NextPool]_vars

NextPoolNoMem ==
    \/ Alloc
    \/ AllocNoMem
    \/ \E element \in plive : Free(element)

SpecPoolNoMem == InitPool /\ [][NextPoolNoMem]_vars

\* ---------------------------------------------------------------- claims
\* The items linked in the table, bucket by bucket.
LiveItems == ItemsInOrder(items, size, 0)

\* Some item linked in some chain has this key.
KeyInTable(key) ==
    \E i \in 1..size : \E p \in 1..Len(items[i]) : compfunc(items[i][p].key, key) = 0

FindNow(key) == hashtable_find(hashfunc, items, size, key)

Mutation == {"insert", "remove", "pop"}

IsPowerOfTwo(n) == n >= 1 /\ BitAnd(n, n - 1) = 0

IterationDone == it.open /\ it.item = NULL

\* C1: after any sequence of insert, remove and pop calls, hashtable_find(key)
\* returns the value of the latest insert of key if the key was not removed or
\* popped since, and NULL otherwise.
C1_FindReturnsLatest == \A key \in Keys : FindNow(key) = recent[key]

\* A find that returns a value from a chain of colliding keys in a table that
\* was resized, while another key is gone.
C1_Witness ==
    /\ last.op = "find" /\ last.ret # NULL
    /\ size # HASHTABLE_DEFAULT_SIZE
    /\ \E i \in 1..size : Len(items[i]) >= 2
    /\ \E key \in Keys : recent[key] = NULL

\* C2: an insert of a key that is in the table returns the prior value and
\* leaves count unchanged; an insert of a key that is not in the table
\* returns NULL and adds exactly 1 to count.
C2_InsertCount ==
    [][\A key \in Keys, data \in Values :
          (last'.op = "insert" /\ Insert(key, data)) =>
              IF KeyInTable(key)
              THEN last'.ret = FindNow(key) /\ count' = count
              ELSE last'.ret = NULL /\ count' = count + 1]_vars

\* C3: count is the number of items linked in the bucket chains.
C3_CountIsLive == hashtable_get_count = Len(LiveItems)

\* C4: when an iteration has reached the end, the number of values
\* hashtable_iterator_next returned is hashtable_get_count.
C4_IterationYieldsCount == IterationDone => Len(yielded) = hashtable_get_count

\* C5: when an iteration has reached the end, the values returned are the
\* values of the live items, each once, in ascending bucket order and in chain
\* order within a bucket.
C5_IterationInOrder ==
    IterationDone => yielded = [p \in 1..Len(LiveItems) |-> LiveItems[p].data]

\* A finished iteration over a table with a chain of two items or more and
\* another bucket in use.
C5_Witness ==
    /\ IterationDone
    /\ last.op = "iterator_next"
    /\ \E i, j \in 1..size : i # j /\ Len(items[i]) >= 2 /\ items[j] # <<>>

\* C6: size is never below HASHTABLE_DEFAULT_SIZE.
C6_SizeAtLeastDefault == size >= HASHTABLE_DEFAULT_SIZE

\* C7: size is a power of two, never 0, the bucket array has size buckets and
\* hash & (size - 1) is an index into it for every key.
C7_SizePowerOfTwo ==
    /\ IsPowerOfTwo(size)
    /\ Len(items) = size
    /\ \A key \in Keys : BucketIndex(hashfunc, size, key) < size

\* An insert that grows a table that removes or pops had shrunk before.
C7_Witness ==
    /\ last.op = "insert" /\ last.resized = 1
    /\ size <= HASHTABLE_DEFAULT_SIZE

\* C8: with a nonzero tolerance T, after every insert, remove or pop
\* size * (100 - T) <= count * 100 < size * T, where the lower bound is only
\* required when size is not HASHTABLE_DEFAULT_SIZE.
C8_LoadWithinBand ==
    (last.op \in Mutation /\ tolerance # 0) =>
        /\ count * 100 < size * tolerance
        /\ size # HASHTABLE_DEFAULT_SIZE => size * (100 - tolerance) <= count * 100

\* C9: with HASHTABLE_SIZE_TOLERANCE 0 the table never resizes: size stays
\* HASHTABLE_DEFAULT_SIZE.
C9_ZeroToleranceNeverResizes == tolerance = 0 => size = HASHTABLE_DEFAULT_SIZE

\* C10: a remove of a key that is not in the table returns NULL and leaves
\* count, size and every bucket chain as they were.
C10_RemoveAbsentNoEffect ==
    [][\A key \in Keys :
          (last'.op = "remove" /\ Remove(key) /\ ~KeyInTable(key)) =>
              /\ last'.ret = NULL
              /\ count' = count /\ size' = size /\ items' = items]_vars

\* A remove of an absent key from a table that holds other keys.
C10_Witness ==
    /\ last.op = "remove" /\ last.ret = NULL
    /\ Len(LiveItems) >= 1

\* The loop while (hashtable_pop(table)) of the test: the items popped until
\* the first NULL, and the table that is left.
RECURSIVE PopUntilNull(_, _, _, _, _)
PopUntilNull(hf, tol, its, sz, cnt) ==
    LET r == hashtable_pop(hf, tol, its, sz, cnt)
    IN  IF r.ret = NULL
        THEN [popped |-> <<>>, items |-> r.items, size |-> r.size, count |-> r.count]
        ELSE LET rest == PopUntilNull(hf, tol, r.items, r.size, r.count)
             IN  [rest EXCEPT !.popped = <<hashtable_item(r.key, r.ret)>> \o @]

SeqToSet(seq) == {seq[p] : p \in 1..Len(seq)}

\* C11: from every reachable table with n live items, successive
\* hashtable_pop calls return a value exactly n times, the value of each live
\* item once, and then NULL; in the table that is left every bucket is empty
\* and one more pop and every find return NULL.
C11_PopDrains ==
    LET d == PopUntilNull(hashfunc, tolerance, items, size, count)
    IN  /\ Len(d.popped) = Len(LiveItems)
        /\ SeqToSet(d.popped) = SeqToSet(LiveItems)
        /\ \A i \in 1..d.size : d.items[i] = <<>>
        /\ hashtable_pop(hashfunc, tolerance, d.items, d.size, d.count).ret = NULL
        /\ \A key \in Keys : hashtable_find(hashfunc, d.items, d.size, key) = NULL

\* The pop that takes the last live item out of the table and shrinks it.
C11_Witness ==
    /\ last.op = "pop" /\ last.ret # NULL /\ last.resized = -1
    /\ LiveItems = <<>>
    /\ PopUntilNull(hashfunc, tolerance, items, size, count).popped = <<>>

\* C18: with the default tolerance, in every reachable table that holds an
\* item, hashtable_pop halves the table exactly when hashtable_remove of the
\* same item would: both calls return the same value and leave the same
\* size, count and bucket chains.
C18_PopShrinksLikeRemove ==
    LiveItems # <<>> =>
        LET key == LiveItems[1].key
            p   == hashtable_pop(hashfunc, tolerance, items, size, count)
            r   == hashtable_remove(hashfunc, tolerance, items, size, count, key)
        IN  /\ p.key = key
            /\ p.size = r.size /\ p.count = r.count
            /\ p.items = r.items /\ p.ret = r.ret
            /\ ShrinkCheckPop(tolerance, count - 1, size)
                   <=> ShrinkCheckRemove(tolerance, count - 1, size)

\* A pop that halved the table and left items for the next pop or remove.
C18_Witness ==
    /\ last.op = "pop" /\ last.resized = -1
    /\ LiveItems # <<>>

\* C19: hashtable_insert makes the growth check before it places the new
\* item and doubles size once exactly when the incremented count has
\* count * 100 >= size * HASHTABLE_SIZE_TOLERANCE: inserts of distinct keys
\* into a fresh table of 16 buckets with tolerance 70 leave size 16 up to the
\* 11th insert, the 12th makes it 32, and the new item is linked in the
\* bucket its hash has under the size the insert leaves.
C19_TwelfthInsertGrows ==
    [][\A key \in DistinctKeys :
          InsertDistinct(key) =>
              /\ size' = IF (count + 1) * 100 >= size * tolerance
                          THEN 2 * size ELSE size
              /\ size' = IF count' >= 12 THEN 32 ELSE 16
              /\ count' = Len(LiveItems')
              /\ \E p \in 1..Len(items'[BucketIndex(hashfunc, size', key) + 1]) :
                     items'[BucketIndex(hashfunc, size', key) + 1][p].key = key]_vars

\* The 12th insert of a new key, which has grown the table to 32 buckets.
C19_Witness ==
    /\ last.op = "insert" /\ last.resized = 1
    /\ count = 12 /\ Len(LiveItems) = 12 /\ size = 32

NoMem == {"insert_nomem", "remove_nomem", "pop_nomem"}

\* C17: when calloc returns NULL in the resize that an insert, remove or pop
\* makes, the call leaves the table with the size and the bucket array it had
\* before the resize.
C17_FailedResizeKeepsTable ==
    [][last'.op \in NoMem =>
          /\ size' = size
          /\ items' # NullArray
          /\ Len(items') = size]_vars

\* The element at p runs past the end of its block.
PastBlockEnd(p) == p.offset + pool.element_size > pool.block_size

\* The element_size bytes at p and at q can share a byte: they are in one
\* block less than element_size apart, or in two blocks and one of them runs
\* past the end of its block.
Overlap(p, q) ==
    IF p.block = q.block
    THEN p.offset - q.offset < pool.element_size
         /\ q.offset - p.offset < pool.element_size
    ELSE PastBlockEnd(p) \/ PastBlockEnd(q)

LastCall == phist[Len(phist)]

\* C12: after every sequence of mempool_alloc and mempool_free calls, each
\* free given a live pointer, no two live pointers have overlapping
\* element_size byte regions, and no call returned a pointer that was live.
C12_LiveRegionsDisjoint ==
    /\ \A p, q \in plive : p # q => ~Overlap(p, q)
    /\ Cardinality(plive) = pool.alloc_count

\* An alloc that reused a freed element while elements of two blocks are
\* live.
C12_Witness ==
    /\ phist # <<>> /\ LastCall.op = "alloc" /\ ~LastCall.newblock
    /\ pool.free_elements # <<>>
    /\ \E p, q \in plive : p.block # q.block
    /\ \E p \in plive : p # LastCall.ptr /\ p.block = LastCall.ptr.block

\* The three latest calls were mempool_alloc, mempool_free of the element it
\* returned, and mempool_alloc.
AllocFreeAlloc ==
    /\ Len(phist) = 3
    /\ phist[1].op = "alloc" /\ phist[3].op = "alloc"
    /\ phist[2].op = "free" /\ phist[2].ptr = phist[1].ptr

\* C13 as stated: in every pool state, after alloc, free of that element and
\* alloc, the second alloc returned the pointer of the first and did not
\* allocate a block.
C13_ReuseAfterFree ==
    AllocFreeAlloc => phist[3].ptr = phist[1].ptr /\ ~phist[3].newblock

\* C13 amended: the same, when the freed element was not the only live
\* element of the pool; when it was, the free released every block and the
\* second alloc allocated a new one.
C13_ReuseWhileOthersLive ==
    AllocFreeAlloc =>
        IF phist[2].count > 0
        THEN phist[3].ptr = phist[1].ptr /\ ~phist[3].newblock
        ELSE phist[3].newblock /\ pool.block_count = 1

\* The second alloc took the element from a free list that holds another
\* element, freed earlier.
C13_Witness ==
    /\ AllocFreeAlloc /\ phist[2].count > 0
    /\ pool.free_elements # <<>>

\* C14: whenever alloc_count is 0 the pool is as MEMPOOL_INIT made it, with
\* block_count 0, no block list, block_end 0 and an empty free list; and
\* there is no block before the first mempool_alloc.
C14_EmptyPoolIsFresh ==
    /\ pool.alloc_count = 0 =>
          /\ pool.block_count = 0 /\ pool.blocks = <<>>
          /\ pool.block_end = 0 /\ pool.free_elements = <<>>
    /\ phist = <<>> => pool.block_count = 0

\* C15: on a pool made with element_count k on which mempool_free was never
\* called, after the n-th mempool_alloc alloc_count is n and the pool has
\* ceil(n / k) blocks; with k = 2 the 3rd alloc allocates the second block.
C15_BlocksAfterAllocs ==
    (~pfreed /\ phist # <<>>) =>
        LET n == pool.alloc_count
            k == pcfg.elem_count
        IN  /\ n = Cardinality(plive)
            /\ pool.block_count = (n + k - 1) \div k
            /\ (k = 2 /\ n = 3) => LastCall.newblock /\ pool.block_count = 2

\* C15 for the pools whose elem_size is not below the link size.
C15_BlocksAfterAllocsLinkSized ==
    pcfg.elem_size >= LINK_SIZE => C15_BlocksAfterAllocs

\* The blocks of the list that exist.
ExistingBlocks == {pool.blocks[i] : i \in 1..Len(pool.blocks)} \ {NULL}

\* C16: a mempool_alloc in which the malloc of the new block fails returns
\* NULL and leaves the pool consistent: alloc_count is the number of live
\* elements, block_count counts blocks that exist, and every later
\* mempool_alloc returns NULL or a pointer into a block that exists.
C16_FailedBlockKeepsPool ==
    /\ pool.alloc_count = Cardinality(plive)
    /\ pool.block_count = Cardinality(ExistingBlocks)
    /\ (phist # <<>> /\ LastCall.op = "alloc") =>
          LastCall.ptr = NullPtr \/ LastCall.ptr.block \in ExistingBlocks

\* C20: for every elem_size and elem_count given to MEMPOOL_INIT, in every
\* reachable pool state 0 <= block_end <= block_size, and every element
\* handed out lies inside its block.
C20_BlockEndWithinBlock ==
    /\ 0 <= pool.block_end /\ pool.block_end <= pool.block_size
    /\ \A p \in plive : ~PastBlockEnd(p)

\* The places (bucket, position in the chain) where an item with this key is
\* linked.
PlacesOf(key) ==
    UNION {{<<i, p>> : p \in {q \in 1..Len(items[i]) :
                                  compfunc(items[i][q].key, key) = 0}} :
           i \in 1..size}

\* C21: in every reachable state every item is linked in the chain of bucket
\* hashfunc(key) & (size - 1) for the current size, and the keys inserted and
\* not removed or popped since are linked exactly once, with their latest
\* value, the others not at all: a resize loses and duplicates no item.
C21_ItemsInTheirBucket ==
    /\ \A i \in 1..size : \A p \in 1..Len(items[i]) :
          BucketIndex(hashfunc, size, items[i][p].key) = i - 1
    /\ \A key \in Keys :
          /\ Cardinality(PlacesOf(key)) = IF recent[key] = NULL THEN 0 ELSE 1
          /\ \A pl \in PlacesOf(key) : items[pl[1]][pl[2]].data = recent[key]

\* A call that resized the table and left a chain of colliding keys and an
\* item in the upper half of the bucket array.
C21_Witness ==
    /\ last.resized # 0
    /\ \E i \in 1..size : Len(items[i]) >= 2
    /\ \E i \in 1..size : items[i] # <<>> /\ i > size \div 2

\* C22: once an iterator has no current item, after the last item was
\* returned or right after hashtable_iterator_begin on an empty table, every
\* hashtable_iterator_next returns NULL and leaves the iterator and the
\* table as they were.
C22_TerminalNextIdempotent ==
    [][(last'.op = "iterator_next" /\ IterationDone) =>
          /\ last'.ret = NULL
          /\ it' = it /\ yielded' = yielded
          /\ items' = items /\ size' = size /\ count' = count]_vars

\* A second hashtable_iterator_next at the end of an iteration that returned
\* the items of the table.
C22_Witness ==
    /\ IterationDone
    /\ last.op = "iterator_next" /\ last.ret = NULL
    /\ Len(yielded) >= 2

\* hashtable_iterator_next right after hashtable_iterator_begin on a table
\* without items.
C22_WitnessEmpty ==
    /\ IterationDone
    /\ last.op = "iterator_next" /\ last.ret = NULL
    /\ yielded = <<>> /\ LiveItems = <<>>

\* The tolerance a table would use if a nonzero tolerance below 50 were
\* raised to 50.
ClampedTolerance == IF tolerance # 0 /\ tolerance < 50 THEN 50 ELSE tolerance

\* C23: a table built with a nonzero HASHTABLE_SIZE_TOLERANCE below 50 uses
\* 50: an insert doubles size exactly when the new count has
\* count * 100 >= size * 50, and a remove that unlinks an item halves size
\* exactly when the new count has count * 100 < size * 50.
C23_LowToleranceClamped ==
    [][(tolerance # 0 /\ tolerance < 50) =>
          /\ last'.op = "insert" =>
                (size' = 2 * size <=> count' * 100 >= size * ClampedTolerance)
          /\ (last'.op = "remove" /\ last'.ret # NULL) =>
                (size' = size \div 2 <=>
                    count' * 100 < size * (100 - ClampedTolerance))]_vars

\* The slots carved so far from the blocks of the list: every block before
\* the last one was carved up to block_size, the last one up to block_end.
SlotsCarved ==
    IF pool.block_count = 0 THEN 0
    ELSE (pool.block_count - 1) * (pool.block_size \div pool.element_size)
         + pool.block_end \div pool.element_size

FreeSlots == {pool.free_elements[i] : i \in 1..Len(pool.free_elements)}

====
